---- MODULE Spec2Model ----
(***************************************************************************)
(* Model of the snatch-rs extraction service: the TTL cache (cache.rs) and *)
(* the retry controller (retry.rs).                                        *)
(*                                                                         *)
(* Durations and the wall clock are counted in milliseconds.  The cache    *)
(* reads the clock through now_fn, which truncates it to whole seconds.    *)
(* All clock values of the model are far below u64::MAX, so the            *)
(* saturating additions of the code never saturate here.                   *)
(***************************************************************************)
EXTENDS Integers, Sequences, FiniteSets, TLC

\* ------------------------------------------------------------------ bounds
MaxSize == 2          \* largest max_size a cache is created with
MaxTicks == 3         \* the wall clock takes MaxTicks steps at most
TickMs == 500         \* one step of the wall clock, in milliseconds
MaxRetriesBound == 7  \* largest max_retries passed to retry_with_backoff

Keys == {"key1", "key2", "key3"}
Values == {"value1", "value2"}
\* TTLs a cache is created with, in milliseconds (test caches use 100 ms)
Ttls == {100, 1000}

MS_PER_SEC == 1000
NANOS_PER_MS == 1000000
NANOS_PER_SEC == 1000000000

\* Option<V>
None == <<>>
Some(v) == <<v>>

VARIABLES
  data,         \* Cache.data: key -> [data, expires_at]
  max_size,     \* Cache.max_size
  ttl,          \* Cache.ttl, a Duration in ms
  clock,        \* the system clock, ms since the epoch
  order,        \* history: stored keys, least recently inserted first
  puts,         \* history: key -> Option of its latest put [at, value], forgotten
                \*   when the key is removed, cleared, or evicted
  last,         \* history: the cache operation of the latest step, its key and
                \*   value, the map and insertion order before it, and what it
                \*   returned
  pc,           \* retry_with_backoff: position of the call
  max_retries,  \* retry_with_backoff: argument
  attempt,      \* retry_with_backoff: local
  delay,        \* retry_with_backoff: local, ms
  last_error,   \* retry_with_backoff: local, Option<E>
  outcomes,     \* history: what each invocation of the operation returned
  slept,        \* history: the suspensions made, ms
  result,       \* retry_with_backoff: returned value, Option<Result<T,E>>
  vurl,         \* the string handed to validate_url / extract_platform
  verdict,      \* Option of what validate_url returned for vurl
  platform,     \* Option of what extract_platform returned for vurl
  req,          \* the request being served: [endpoint, url]
  phase,        \* "idle", "running" (suspended in an await) or "responded"
  spawns,       \* history: the URLs yt-dlp was spawned with for this request
  status,       \* the HTTP status the request was answered with, 0 if none
  elapsed,      \* ms the request has been in service
  children,     \* the yt-dlp processes of this request that are still running
  prev,         \* history: the request served just before this one, if it was an
                \*   extraction that succeeded
  json,         \* the serde_json::Value handed to extract_formats
  formats,      \* Option of the Vec<VideoFormat> extract_formats returned
  lock,         \* the Mutex around the cache: the task holding it, or None
  tasks,        \* task -> [pc, key, value]: position in a cache operation
  calls,        \* call -> the locals of one retry_with_backoff call
  twin,         \* Cache.data of the run that never calls cleanup_expired
  twin_res      \* Option of what the latest get returned in that run

cacheVars == <<data, max_size, ttl, clock, order, puts, last>>
retryVars == <<pc, max_retries, attempt, delay, last_error, outcomes, slept, result>>
urlVars == <<vurl, verdict, platform>>
svcVars == <<req, phase, spawns, status, elapsed, children, prev>>
fmtVars == <<json, formats>>
lockVars == <<lock, tasks>>
callVars == <<calls>>
twinVars == <<twin, twin_res>>
restVars == <<fmtVars, lockVars, callVars, twinVars>>
vars == <<data, max_size, ttl, clock, order, puts, last,
          pc, max_retries, attempt, delay, last_error, outcomes, slept, result,
          vurl, verdict, platform, req, phase, spawns, status, elapsed, children, prev,
          json, formats, lock, tasks, calls, twin, twin_res>>

\* ------------------------------------------------------------ Duration
as_secs(d) == d \div MS_PER_SEC
subsec_nanos(d) == (d % MS_PER_SEC) * NANOS_PER_MS
saturating_add(a, b) == a + b

\* ---------------------------------------------------------------- cache
\* now_fn: SystemTime::now().duration_since(UNIX_EPOCH).as_secs()
now_fn == as_secs(clock)

len(d) == Cardinality(DOMAIN d)
MapRemove(d, k) == [x \in (DOMAIN d) \ {k} |-> d[x]]
MapInsert(d, k, e) == [x \in (DOMAIN d) \cup {k} |-> IF x = k THEN e ELSE d[x]]

\* the test of Cache::get (and of the retain in cleanup_expired)
NotExpiredLe(now, entry) == now <= entry.expires_at
NotExpired(now, entry) == now < entry.expires_at

\* the loop condition of Cache::put
CacheFullGt(d) == len(d) > max_size
CacheFull(d) == len(d) >= max_size

\* evict_oldest: the keys min_by_key may yield.  HashMap iteration order is
\* unspecified, so any entry with the least expires_at may be the one found.
MaxExpiryKeys(d) ==
  {k \in DOMAIN d : \A j \in DOMAIN d : d[k].expires_at >= d[j].expires_at}
MinExpiryKeys(d) ==
  {k \in DOMAIN d : \A j \in DOMAIN d : d[k].expires_at <= d[j].expires_at}

\* the maps evict_oldest may leave behind
evict_oldest(d) ==
  IF DOMAIN d = {} THEN {d} ELSE {MapRemove(d, k) : k \in MinExpiryKeys(d)}

\* the maps the while loop of put may leave behind
RECURSIVE EvictLoop(_)
EvictLoop(d) ==
  IF CacheFull(d) THEN UNION {EvictLoop(d2) : d2 \in evict_oldest(d)} ELSE {d}

\* expires_at as put computes it
ExpiresAtRoundUp(now) == saturating_add(saturating_add(now, as_secs(ttl)), 1)
ExpiresAt(now) ==
  saturating_add(saturating_add(now, as_secs(ttl)),
                 subsec_nanos(ttl) \div NANOS_PER_SEC)

\* history bookkeeping shared by the cache operations
KeepOrder(d2) == SelectSeq(order, LAMBDA k : k \in DOMAIN d2)
Forget(p, ks) == [k \in Keys |-> IF k \in ks THEN None ELSE p[k]]
Record(op, key, value, res) ==
  [op |-> op, key |-> key, value |-> value, pre |-> data, pre_order |-> order,
   res |-> res]
NoOp ==
  [op |-> "none", key |-> "", value |-> "", pre |-> <<>>, pre_order |-> <<>>,
   res |-> None]

get(key) ==
  LET now == now_fn IN
  /\ IF key \in DOMAIN data
       THEN IF NotExpired(now, data[key])
              THEN /\ data' = data
                   /\ last' = Record("get", key, "", Some(data[key].data))
              ELSE /\ data' = MapRemove(data, key)
                   /\ last' = Record("get", key, "", None)
       ELSE /\ data' = data
            /\ last' = Record("get", key, "", None)
  /\ order' = KeepOrder(data')
  /\ UNCHANGED <<max_size, ttl, clock, puts>>

put(key, value) ==
  \E d1 \in EvictLoop(data) :
    LET now == now_fn
        expires_at == ExpiresAt(now)
        gone == (DOMAIN data) \ (DOMAIN d1)
    IN /\ data' = MapInsert(d1, key, [data |-> value, expires_at |-> expires_at])
       /\ last' = Record("put", key, value, None)
       /\ order' = Append(SelectSeq(order, LAMBDA k : k \in DOMAIN d1 /\ k # key), key)
       /\ puts' = [Forget(puts, gone) EXCEPT
                     ![key] = Some([at |-> clock, value |-> value])]
       /\ UNCHANGED <<max_size, ttl, clock>>

remove(key) ==
  /\ data' = MapRemove(data, key)
  /\ last' = Record("remove", key, "",
                    IF key \in DOMAIN data THEN Some(data[key].data) ELSE None)
  /\ order' = KeepOrder(data')
  /\ puts' = Forget(puts, {key})
  /\ UNCHANGED <<max_size, ttl, clock>>

clear ==
  /\ data' = <<>>
  /\ last' = Record("clear", "", "", None)
  /\ order' = <<>>
  /\ puts' = Forget(puts, Keys)
  /\ UNCHANGED <<max_size, ttl, clock>>

cleanup_expired ==
  LET now == now_fn IN
  /\ data' = [k \in {x \in DOMAIN data : NotExpired(now, data[x])} |-> data[k]]
  /\ last' = Record("cleanup_expired", "", "", None)
  /\ order' = KeepOrder(data')
  /\ UNCHANGED <<max_size, ttl, clock, puts>>

\* the system clock moves on
Tick ==
  /\ clock + TickMs <= MaxTicks * TickMs
  /\ clock' = clock + TickMs
  /\ last' = NoOp
  /\ UNCHANGED <<data, max_size, ttl, order, puts>>

\* the system clock is set (SystemTime is not monotonic)
ClockSet ==
  /\ \E n \in 0..MaxTicks : clock' = n * TickMs /\ clock' # clock
  /\ last' = NoOp
  /\ UNCHANGED <<data, max_size, ttl, order, puts>>

Get == (\E key \in Keys : get(key)) /\ UNCHANGED <<retryVars, urlVars, svcVars, restVars>>
Put == (\E key \in Keys, value \in Values : put(key, value)) /\ UNCHANGED <<retryVars, urlVars, svcVars, restVars>>
Remove == (\E key \in Keys : remove(key)) /\ UNCHANGED <<retryVars, urlVars, svcVars, restVars>>
Clear == clear /\ UNCHANGED <<retryVars, urlVars, svcVars, restVars>>
CleanupExpired == cleanup_expired /\ UNCHANGED <<retryVars, urlVars, svcVars, restVars>>
ClockTick == Tick /\ UNCHANGED <<retryVars, urlVars, svcVars, restVars>>
ClockAdjust == ClockSet /\ UNCHANGED <<retryVars, urlVars, svcVars, restVars>>

\* Cache::new
CacheNew(ms, t) ==
  /\ data = <<>>
  /\ max_size = ms
  /\ ttl = t
  /\ clock = 0
  /\ order = <<>>
  /\ puts = [k \in Keys |-> None]
  /\ last = NoOp

\* nothing has been validated, no request has arrived
NoReq == [endpoint |-> "", url |-> <<>>]
UrlIdle == vurl = <<>> /\ verdict = None /\ platform = None
NoPrev == [endpoint |-> "", url |-> <<>>, status |-> 0, ok |-> FALSE, spawned |-> 0]
SvcIdle ==
  /\ req = NoReq
  /\ phase = "idle"
  /\ spawns = <<>>
  /\ status = 0
  /\ elapsed = 0
  /\ children = 0
  /\ prev = NoPrev

\* the tasks that share the cache, and the calls of retry_with_backoff that
\* run at the same time
Tasks == {"task1", "task2"}
Calls == {"call1", "call2"}
NoJson == [url |-> None, formats |-> None, requested_downloads |-> None]
TaskIdle == [pc |-> "idle", op |-> "", key |-> "", value |-> ""]
CallIdle == [pc |-> "idle", fails |-> 0, attempt |-> 0, delay |-> 0, invoked |-> 0,
             slept |-> <<>>, result |-> None]
RestIdle ==
  /\ json = NoJson
  /\ formats = None
  /\ lock = None
  /\ tasks = [t \in Tasks |-> TaskIdle]
  /\ calls = [c \in Calls |-> CallIdle]
  /\ twin = <<>>
  /\ twin_res = None

RetryIdle ==
  /\ pc = "idle"
  /\ max_retries = 0
  /\ attempt = 0
  /\ delay = 0
  /\ last_error = None
  /\ outcomes = <<>>
  /\ slept = <<>>
  /\ result = None

Init ==
  /\ \E ms \in 1..MaxSize, t \in Ttls : CacheNew(ms, t)
  /\ RetryIdle
  /\ UrlIdle
  /\ SvcIdle
  /\ RestIdle

Next == Get \/ Put \/ Remove \/ Clear \/ CleanupExpired \/ ClockTick

Spec == Init /\ [][Next]_vars

NextAnyClock == Get \/ Put \/ Remove \/ Clear \/ CleanupExpired \/ ClockAdjust

SpecAnyClock == Init /\ [][NextAnyClock]_vars

\* ---------------------------------------------------------------- retry
\* Strings are sequences of one-character strings.
UPPER == <<"A", "B", "C", "D", "E", "F", "G", "H", "I", "J", "K", "L", "M", "N", "O", "P", "Q", "R", "S", "T", "U", "V", "W", "X", "Y", "Z">>
LOWER == <<"a", "b", "c", "d", "e", "f", "g", "h", "i", "j", "k", "l", "m", "n", "o", "p", "q", "r", "s", "t", "u", "v", "w", "x", "y", "z">>
LowerChar(c) ==
  IF \E i \in 1..Len(UPPER) : UPPER[i] = c
    THEN LOWER[CHOOSE i \in 1..Len(UPPER) : UPPER[i] = c]
    ELSE c
to_lowercase(str) == [i \in 1..Len(str) |-> LowerChar(str[i])]
contains(str, pat) ==
  \E i \in 0..(Len(str) - Len(pat)) : SubSeq(str, i + 1, i + Len(pat)) = pat

NON_RETRYABLE_PATTERNS == <<
  <<"i", "n", "v", "a", "l", "i", "d", " ", "U", "R", "L">>,
  <<"u", "n", "s", "u", "p", "p", "o", "r", "t", "e", "d", " ", "p", "l", "a", "t", "f", "o", "r", "m">>,
  <<"U", "R", "L", " ", "c", "o", "n", "t", "a", "i", "n", "s">>,
  <<"O", "n", "l", "y", " ", "H", "T", "T", "P", " ", "a", "n", "d", " ", "H", "T", "T", "P", "S">> >>

is_retryable_error(error) ==
  LET error_lower == to_lowercase(error) IN
  ~ \E n \in 1..Len(NON_RETRYABLE_PATTERNS) :
      contains(error_lower, to_lowercase(NON_RETRYABLE_PATTERNS[n]))

\* the errors the wrapped operation may fail with
ErrTimeout == <<"c", "o", "n", "n", "e", "c", "t", "i", "o", "n", " ", "t", "i", "m", "e", "o", "u", "t">>
ErrNetwork == <<"n", "e", "t", "w", "o", "r", "k", " ", "e", "r", "r", "o", "r">>
ErrInvalid == <<"I", "n", "v", "a", "l", "i", "d", " ", "U", "R", "L", " ", "f", "o", "r", "m", "a", "t">>
Errors == {ErrTimeout, ErrNetwork, ErrInvalid}

\* Result<T, E>
Ok(v) == [ok |-> TRUE, val |-> v, err |-> <<>>]
Err(e) == [ok |-> FALSE, val |-> "", err |-> e]
OperationResults == {Ok("done")} \cup {Err(e) : e \in Errors}

INITIAL_DELAY_MS == 500
MAX_DELAY_MS == 30000
BACKOFF_FACTOR == 2

\* the guard of the retrying match arm
MayRetryLe(att, max) == att <= max
MayRetry(att, max) == att < max

\* the error of the final match arm
StaleError(e, previous) == IF previous # None THEN previous[1] ELSE e
FinalError(e, previous) == e

\* delay.saturating_mul(2), capped at 30 seconds
NextDelayUncapped(d) == d * BACKOFF_FACTOR
NextDelay(d) ==
  LET doubled == d * BACKOFF_FACTOR IN
  IF doubled > MAX_DELAY_MS THEN MAX_DELAY_MS ELSE doubled

\* one pass of the loop: operation().await and the match on its result, up to
\* the return or to the suspension in sleep(delay)
attempt_step(results) ==
  /\ pc = "call"
  /\ \E r \in results :
       /\ outcomes' = Append(outcomes, r)
       /\ IF r.ok
            THEN /\ result' = Some(r)
                 /\ pc' = "done"
                 /\ UNCHANGED <<attempt, last_error, slept>>
            ELSE IF MayRetry(attempt, max_retries)
              THEN /\ attempt' = attempt + 1
                   /\ last_error' = Some(r.err)
                   /\ slept' = Append(slept, delay)
                   /\ pc' = "sleep"
                   /\ UNCHANGED result
              ELSE /\ result' = Some(Err(FinalError(r.err, last_error)))
                   /\ pc' = "done"
                   /\ UNCHANGED <<attempt, last_error, slept>>
  /\ UNCHANGED <<max_retries, delay>>

Attempt == attempt_step(OperationResults) /\ UNCHANGED <<cacheVars, urlVars, svcVars, restVars>>

\* sleep(delay) is over: the delay doubles and the loop starts again
wake_step ==
  /\ pc = "sleep"
  /\ delay' = NextDelay(delay)
  /\ pc' = "call"
  /\ UNCHANGED <<max_retries, attempt, last_error, outcomes, slept, result>>

Wake == wake_step /\ UNCHANGED <<cacheVars, urlVars, svcVars, restVars>>

\* retry_with_backoff is called
RetryStart(mr) ==
  /\ pc = "call"
  /\ max_retries = mr
  /\ attempt = 0
  /\ delay = INITIAL_DELAY_MS
  /\ last_error = None
  /\ outcomes = <<>>
  /\ slept = <<>>
  /\ result = None

DEFAULT_CACHE_SIZE == 100
DEFAULT_CACHE_TTL_MS == 300000

InitRetry ==
  /\ CacheNew(DEFAULT_CACHE_SIZE, DEFAULT_CACHE_TTL_MS)
  /\ \E mr \in 0..MaxRetriesBound : RetryStart(mr)
  /\ UrlIdle
  /\ SvcIdle
  /\ RestIdle

NextRetry == Attempt \/ Wake

SpecRetry == InitRetry /\ [][NextRetry]_vars

\* ----------------------------------------------------------- strings
\* the grave accent (U+0060), which a TLA+ string cannot hold
GRAVE == "U+0060"
ALPHA == {UPPER[i] : i \in 1..Len(UPPER)} \cup {LOWER[i] : i \in 1..Len(LOWER)}
DIGITS == <<"0", "1", "2", "3", "4", "5", "6", "7", "8", "9">>
DIGIT == {DIGITS[i] : i \in 1..Len(DIGITS)}
\* char::is_whitespace, on the characters used here
WHITE_SPACE == {" ", "\t", "\n", "\r"}

\* position of the first character of str that is in cs, Len(str) + 1 if none
FirstIn(str, cs) ==
  IF \E i \in 1..Len(str) : str[i] \in cs
    THEN CHOOSE i \in 1..Len(str) : str[i] \in cs /\ \A j \in 1..(i - 1) : str[j] \notin cs
    ELSE Len(str) + 1
\* position of the first character of str that is not in cs, Len(str) + 1 if none
FirstNotIn(str, cs) ==
  IF \E i \in 1..Len(str) : str[i] \notin cs
    THEN CHOOSE i \in 1..Len(str) : str[i] \notin cs /\ \A j \in 1..(i - 1) : str[j] \in cs
    ELSE Len(str) + 1
\* position of the last character of str that is in cs, 0 if none
LastIn(str, cs) ==
  IF \E i \in 1..Len(str) : str[i] \in cs
    THEN CHOOSE i \in 1..Len(str) : str[i] \in cs /\ \A j \in (i + 1)..Len(str) : str[j] \notin cs
    ELSE 0
LastNotIn(str, cs) ==
  IF \E i \in 1..Len(str) : str[i] \notin cs
    THEN CHOOSE i \in 1..Len(str) : str[i] \notin cs /\ \A j \in (i + 1)..Len(str) : str[j] \in cs
    ELSE 0
Strip(str, cs) == SubSeq(str, FirstNotIn(str, cs), LastNotIn(str, cs))
\* str::trim, str::starts_with, str::ends_with
trim(str) == Strip(str, WHITE_SPACE)
starts_with(str, pat) == Len(str) >= Len(pat) /\ SubSeq(str, 1, Len(pat)) = pat
ends_with(str, pat) ==
  Len(str) >= Len(pat) /\ SubSeq(str, Len(str) - Len(pat) + 1, Len(str)) = pat

\* ------------------------------------------------------ url::Url::parse
\* The parser of the url crate, on strings over ASCII letters, digits and
\* punctuation without '%', '[' or ']', whose host does not end in a number
\* and whose scheme is not "file".
C0_CONTROL_OR_SPACE == {" ", "\t", "\n", "\r"}
ASCII_TAB_OR_NEW_LINE == {"\t", "\n", "\r"}
SCHEME_CHARS == ALPHA \cup DIGIT \cup {"+", "-", "."}
SPECIAL_SCHEMES == {
  <<"h", "t", "t", "p">>,
  <<"h", "t", "t", "p", "s">>,
  <<"w", "s">>,
  <<"w", "s", "s">>,
  <<"f", "t", "p">> }
\* is_invalid_domain_char (special schemes), is_invalid_host_char (others)
FORBIDDEN_DOMAIN_CHARS ==
  {" ", "\t", "\n", "\r", "#", "%", "/", ":", "<", ">", "?", "@", "[", "\\", "]", "^", "|"}
FORBIDDEN_HOST_CHARS ==
  {" ", "\t", "\n", "\r", "#", "/", ":", "<", ">", "?", "@", "[", "\\", "]", "^", "|"}

ParseOk(scheme, host) == [ok |-> TRUE, scheme |-> scheme, host |-> host, err |-> ""]
ParseErr(e) == [ok |-> FALSE, scheme |-> <<>>, host |-> None, err |-> e]

DigitValue(c) == (CHOOSE i \in 1..Len(DIGITS) : DIGITS[i] = c) - 1
RECURSIVE PortValue(_)
PortValue(str) ==
  IF str = <<>> THEN 0
  ELSE LET v == PortValue(SubSeq(str, 1, Len(str) - 1)) * 10 + DigitValue(str[Len(str)])
       IN IF v > 65535 THEN 65536 ELSE v

\* Parser::after_double_slash: userinfo, host and port
after_double_slash(scheme, input, special) ==
  LET delims == IF special THEN {"/", "?", "#", "\\"} ELSE {"/", "?", "#"}
      authority == SubSeq(input, 1, FirstIn(input, delims) - 1)
      last_at == LastIn(authority, {"@"})
      remaining == SubSeq(authority, last_at + 1, Len(authority))
      host_str == SubSeq(remaining, 1, FirstIn(remaining, {":"}) - 1)
      has_port == FirstIn(remaining, {":"}) <= Len(remaining)
      port_str == SubSeq(remaining, FirstIn(remaining, {":"}) + 1, Len(remaining))
  IN IF last_at = 1 /\ remaining = <<>> /\ Len(authority) < Len(input)
       THEN ParseErr("empty host")
     ELSE IF special /\ host_str = <<>>
       THEN ParseErr("empty host")
     ELSE IF \E i \in 1..Len(host_str) :
               host_str[i] \in (IF special THEN FORBIDDEN_DOMAIN_CHARS
                                           ELSE FORBIDDEN_HOST_CHARS)
       THEN ParseErr("invalid domain character")
     ELSE IF has_port /\ (\E i \in 1..Len(port_str) : port_str[i] \notin DIGIT)
       THEN ParseErr("invalid port number")
     ELSE IF has_port /\ PortValue(port_str) > 65535
       THEN ParseErr("invalid port number")
     ELSE IF host_str = <<>> /\ has_port /\ port_str # <<>>
       THEN ParseErr("empty host")
     ELSE ParseOk(scheme, Some(IF special THEN to_lowercase(host_str) ELSE host_str))

Url_parse(input) ==
  LET str == SelectSeq(Strip(input, C0_CONTROL_OR_SPACE),
                       LAMBDA c : c \notin ASCII_TAB_OR_NEW_LINE)
      scheme_end == FirstNotIn(str, SCHEME_CHARS)
  IN IF str = <<>> \/ str[1] \notin ALPHA \/ scheme_end > Len(str) \/ str[scheme_end] # ":"
       THEN ParseErr("relative URL without a base")
     ELSE LET scheme == to_lowercase(SubSeq(str, 1, scheme_end - 1))
              rest == SubSeq(str, scheme_end + 1, Len(str))
          IN IF scheme \in SPECIAL_SCHEMES
               THEN after_double_slash(
                      scheme, SubSeq(rest, FirstNotIn(rest, {"/", "\\"}), Len(rest)), TRUE)
             ELSE IF starts_with(rest, <<"/", "/">>)
               THEN after_double_slash(scheme, SubSeq(rest, 3, Len(rest)), FALSE)
             ELSE ParseOk(scheme, None)

\* ----------------------------------------------------------- validation
ALLOWED_PLATFORMS == <<
  <<"i", "n", "s", "t", "a", "g", "r", "a", "m", ".", "c", "o", "m">>,
  <<"t", "i", "k", "t", "o", "k", ".", "c", "o", "m">>,
  <<"t", "w", "i", "t", "t", "e", "r", ".", "c", "o", "m">>,
  <<"x", ".", "c", "o", "m">> >>
DANGEROUS_CHARS == {";", "|", "&", "$", GRAVE, "\n", "\r", "\t", "\\", "<", ">"}

HTTP == <<"h", "t", "t", "p">>
HTTPS == <<"h", "t", "t", "p", "s">>

MSG_DANGEROUS == <<"U", "R", "L", " ", "c", "o", "n", "t", "a", "i", "n", "s", " ", "i", "n", "v", "a", "l", "i", "d", " ", "c", "h", "a", "r", "a", "c", "t", "e", "r">>
MSG_FORMAT == <<"I", "n", "v", "a", "l", "i", "d", " ", "U", "R", "L", " ", "f", "o", "r", "m", "a", "t">>
MSG_PROTOCOL == <<"U", "n", "s", "u", "p", "p", "o", "r", "t", "e", "d", " ", "p", "r", "o", "t", "o", "c", "o", "l">>
MSG_NO_HOST == <<"U", "R", "L", " ", "h", "a", "s", " ", "n", "o", " ", "h", "o", "s", "t">>
MSG_PLATFORM == <<"U", "n", "s", "u", "p", "p", "o", "r", "t", "e", "d", " ", "p", "l", "a", "t", "f", "o", "r", "m">>

\* Result<(), String>: the message, and the character it names if any
Accepted == [ok |-> TRUE, err |-> <<>>, ch |-> ""]
Rejected(msg, c) == [ok |-> FALSE, err |-> msg, ch |-> c]

\* the character the loop over url.chars() stops at
LastDangerous(url) == LastIn(url, DANGEROUS_CHARS)
FirstDangerous(url) == FirstIn(url, DANGEROUS_CHARS)

\* the match on parsed.scheme()
SchemeAllowedFtp(scheme) == scheme \in {HTTP, HTTPS, <<"f", "t", "p">>}
SchemeAllowed(scheme) == scheme \in {HTTP, HTTPS}

\* host_lower == platform || host_lower.ends_with(".{platform}")
HostIsSuffix(host_lower, plat) == ends_with(host_lower, plat)
HostIs(host_lower, plat) ==
  host_lower = plat \/ ends_with(host_lower, <<".">> \o plat)

is_allowed(host_lower) ==
  \E n \in 1..Len(ALLOWED_PLATFORMS) : HostIs(host_lower, ALLOWED_PLATFORMS[n])

validate_url(url) ==
  IF \E i \in 1..Len(url) : url[i] \in DANGEROUS_CHARS
    THEN Rejected(MSG_DANGEROUS, url[FirstDangerous(url)])
  ELSE LET parsed == Url_parse(url) IN
    IF ~parsed.ok THEN Rejected(MSG_FORMAT, "")
    ELSE IF ~SchemeAllowed(parsed.scheme) THEN Rejected(MSG_PROTOCOL, "")
    ELSE LET host == IF parsed.host = None THEN <<>> ELSE parsed.host[1] IN
      IF host = <<>> THEN Rejected(MSG_NO_HOST, "")
      ELSE IF ~is_allowed(to_lowercase(host)) THEN Rejected(MSG_PLATFORM, "")
      ELSE Accepted

\* host_lower.contains(domain)
HostEquals(host_lower, domain) == host_lower = domain
HostContains(host_lower, domain) == contains(host_lower, domain)

extract_platform(url) ==
  LET parsed == Url_parse(url) IN
  IF parsed.ok /\ parsed.host # None
    THEN LET host_lower == to_lowercase(parsed.host[1]) IN
         IF HostContains(host_lower, <<"i", "n", "s", "t", "a", "g", "r", "a", "m", ".", "c", "o", "m">>) THEN "instagram"
         ELSE IF HostContains(host_lower, <<"t", "i", "k", "t", "o", "k", ".", "c", "o", "m">>) THEN "tiktok"
         ELSE IF \/ HostContains(host_lower, <<"x", ".", "c", "o", "m">>)
                 \/ HostContains(host_lower, <<"t", "w", "i", "t", "t", "e", "r", ".", "c", "o", "m">>)
           THEN "twitter"
         ELSE "unknown"
    ELSE "unknown"

\* the strings validated: a scheme part, a host part and a path part put
\* together, and some strings that are no URLs at all
SchemeParts == {
  <<"h", "t", "t", "p", "s", ":", "/", "/">>,
  <<"h", "t", "t", "p", ":", "/", "/">>,
  <<"H", "T", "T", "P", "S", ":", "/", "/">>,
  <<"h", "t", "t", "p", "s", ":">>,
  <<"f", "t", "p", ":", "/", "/">>,
  <<"j", "a", "v", "a", "s", "c", "r", "i", "p", "t", ":">>,
  <<":", "/", "/">>,
  <<>> }
HostParts == {
  <<"i", "n", "s", "t", "a", "g", "r", "a", "m", ".", "c", "o", "m">>,
  <<"w", "w", "w", ".", "i", "n", "s", "t", "a", "g", "r", "a", "m", ".", "c", "o", "m">>,
  <<"t", "i", "k", "t", "o", "k", ".", "c", "o", "m">>,
  <<"t", "w", "i", "t", "t", "e", "r", ".", "c", "o", "m">>,
  <<"x", ".", "c", "o", "m">>,
  <<"I", "n", "s", "t", "a", "g", "r", "a", "m", ".", "C", "O", "M">>,
  <<"y", "o", "u", "t", "u", "b", "e", ".", "c", "o", "m">>,
  <<"n", "o", "t", "i", "n", "s", "t", "a", "g", "r", "a", "m", ".", "c", "o", "m">>,
  <<"i", "n", "s", "t", "a", "g", "r", "a", "m", ".", "c", "o", "m", ".", "e", "v", "i", "l", ".", "o", "r", "g">>,
  <<"i", "n", "s", "t", "a", "g", "r", "a", "m", ".", "c", "o", "m", ".", "x", ".", "c", "o", "m">>,
  <<"i", "n", "s", "t", "a", "g", "r", "a", "m", ".", "c", "o", "m", ".">>,
  <<"x", ".", "c", "o", "m", "@", "e", "v", "i", "l", ".", "o", "r", "g">>,
  <<"e", "v", "i", "l", ".", "o", "r", "g", "@", "x", ".", "c", "o", "m">>,
  <<"x", ".", "c", "o", "m", ":", "8", "0">>,
  <<"x", ".", "c", "o", "m", ":", "8", "o">>,
  <<>> }
PathParts == {
  <<>>,
  <<"/", "p", "/", "1">>,
  <<"/", "p", "/", "1", ";", " ", "r", "m", " ", "-", "r", "f", " ", "/">>,
  <<"/", "p", "/", "1", "|", "c", "a", "t">>,
  <<"/", "a", "&", "b">>,
  <<"/", "$", "H", "O", "M", "E">>,
  <<"/", GRAVE, "i", "d", GRAVE>>,
  <<"/", "a", "|", "b", ";", "c">>,
  <<"/", "a", ";", "b", "|", "c">>,
  <<"/", "a", "\t", "b">>,
  <<"/", "a", "\\", "b">>,
  <<"/", "<", "a", ">">>,
  <<"?", "u", "=", "x", ".", "c", "o", "m">> }
OddStrings == {
  <<>>,
  <<" ">>,
  <<" ", " ">>,
  <<"\t">>,
  <<" ", "\n">>,
  <<"n", "o", "t", "-", "a", "-", "u", "r", "l">>,
  <<"-", "-", "e", "x", "e", "c">>,
  <<"-", "o">>,
  <<"x", ".", "c", "o", "m">> }

Urls == {s \o h \o p : s \in SchemeParts, h \in HostParts, p \in PathParts} \cup OddStrings

ValidateUrl ==
  /\ verdict = None
  /\ verdict' = Some(validate_url(vurl))
  /\ UNCHANGED <<vurl, platform, cacheVars, retryVars, svcVars, restVars>>

ExtractPlatform ==
  /\ platform = None
  /\ platform' = Some(extract_platform(vurl))
  /\ UNCHANGED <<vurl, verdict, cacheVars, retryVars, svcVars, restVars>>

InitValidate ==
  /\ CacheNew(DEFAULT_CACHE_SIZE, DEFAULT_CACHE_TTL_MS)
  /\ RetryIdle
  /\ vurl \in Urls
  /\ verdict = None
  /\ platform = None
  /\ SvcIdle
  /\ RestIdle

NextValidate == ValidateUrl \/ ExtractPlatform

SpecValidate == InitValidate /\ [][NextValidate]_vars

\* -------------------------------------------------------------- service
\* The two servers, one request at a time. snatch-rs: extract_handler,
\* download_handler and a direct call of extract_video_info; downloader-api:
\* download_handler. No handler takes the AppState that holds the cache, so
\* no step below touches cacheVars.
BAD_REQUEST == 400
OK == 200
INTERNAL_SERVER_ERROR == 500
REQUEST_TIMEOUT == 408
EXTRACT_MAX_RETRIES == 3
YT_DLP_TIMEOUT_MS == 30000
LAYER_TIMEOUT_MS == 60000
\* how long a run of yt-dlp that ends before its timeout takes
ToolRunMs == 1000

ErrToolTimeout == <<"R", "e", "q", "u", "e", "s", "t", " ", "t", "i", "m", "e", "o", "u", "t", " ", "(", "3", "0", "s", ")">>
ErrToolSpawn == <<"F", "a", "i", "l", "e", "d", " ", "t", "o", " ", "r", "u", "n", " ", "y", "t", "-", "d", "l", "p">>
ErrToolExit == <<"y", "t", "-", "d", "l", "p", " ", "e", "r", "r", "o", "r">>
ErrToolParse == <<"F", "a", "i", "l", "e", "d", " ", "t", "o", " ", "p", "a", "r", "s", "e", " ", "y", "t", "-", "d", "l", "p", " ", "o", "u", "t", "p", "u", "t">>
ToolErrors == {ErrToolTimeout, ErrToolSpawn, ErrToolExit, ErrToolParse}

\* what one call of extract_video_info_internal can return
ToolResults(url) == {Ok(extract_platform(url))} \cup {Err(e) : e \in ToolErrors}
\* Command::output started the process unless it returned an io::Error
ToolStarted(r) == r.ok \/ r.err # ErrToolSpawn
ToolTook(r) == IF ~r.ok /\ r.err = ErrToolTimeout THEN YT_DLP_TIMEOUT_MS ELSE ToolRunMs
\* the Command is built without kill_on_drop(true): a child whose output()
\* future is dropped (by the 30 s timeout, or with the handler) is not killed
kill_on_drop == FALSE
\* the children one try leaves running when it returns r, or when the
\* handler is dropped during it
Orphans(r, dropped) ==
  IF ToolStarted(r) /\ (dropped \/ (~r.ok /\ r.err = ErrToolTimeout)) /\ ~kill_on_drop
    THEN 1 ELSE 0

ServiceUrls == {
  <<"h", "t", "t", "p", "s", ":", "/", "/", "w", "w", "w", ".", "i", "n", "s", "t", "a", "g", "r", "a", "m", ".", "c", "o", "m", "/", "p", "/", "1">>,
  <<"h", "t", "t", "p", "s", ":", "/", "/", "x", ".", "c", "o", "m", "/", "a">>,
  <<>>,
  <<"h", "t", "t", "p", "s", ":", "/", "/", "y", "o", "u", "t", "u", "b", "e", ".", "c", "o", "m", "/", "w", "a", "t", "c", "h">>,
  <<"h", "t", "t", "p", "s", ":", "/", "/", "i", "n", "s", "t", "a", "g", "r", "a", "m", ".", "c", "o", "m", "/", "p", "/", "1", ";", " ", "r", "m", " ", "-", "r", "f", " ", "/">>,
  <<"-", "-", "e", "x", "e", "c">>,
  <<"f", "t", "p", ":", "/", "/", "i", "n", "s", "t", "a", "g", "r", "a", "m", ".", "c", "o", "m", "/", "p", "/", "1">> }

\* if let Err(error_msg) = validate_url(&payload.url)
HandlerAcceptsPrefix(url) ==
  /\ trim(url) # <<>>
  /\ \/ starts_with(url, <<"h", "t", "t", "p", ":", "/", "/">>)
     \/ starts_with(url, <<"h", "t", "t", "p", "s", ":", "/", "/">>)
HandlerAccepts(url) == validate_url(url).ok
\* validate_url(url)?
ExtractorAcceptsAll(url) == TRUE
ExtractorAccepts(url) == validate_url(url).ok

\* a request arrives once the one before it is answered
begin(endpoint, url) ==
  /\ phase \in {"idle", "responded"}
  /\ req' = [endpoint |-> endpoint, url |-> url]
  /\ prev' = IF phase = "responded" /\ result # None /\ result[1].ok
               THEN [endpoint |-> req.endpoint, url |-> req.url, status |-> status,
                     ok |-> TRUE, spawned |-> Len(spawns)]
               ELSE NoPrev

\* retry_with_backoff is entered
retry_enter(mr) ==
  /\ pc' = "call"
  /\ max_retries' = mr
  /\ attempt' = 0
  /\ delay' = INITIAL_DELAY_MS
  /\ last_error' = None
  /\ outcomes' = <<>>
  /\ slept' = <<>>
  /\ result' = None

\* the request returns res without entering retry_with_backoff
retry_skip(res) ==
  /\ pc' = "idle"
  /\ max_retries' = 0
  /\ attempt' = 0
  /\ delay' = 0
  /\ last_error' = None
  /\ outcomes' = <<>>
  /\ slept' = <<>>
  /\ result' = res

\* extract_video_info up to its await; failed is the status its caller
\* answers an Err with
extract_video_info(url, failed) ==
  IF ExtractorAccepts(url)
    THEN /\ retry_enter(EXTRACT_MAX_RETRIES)
         /\ phase' = "running"
         /\ status' = 0
    ELSE /\ retry_skip(Some(Err(validate_url(url).err)))
         /\ phase' = "responded"
         /\ status' = failed

\* POST /api/extract of snatch-rs
ExtractHandler ==
  /\ \E url \in ServiceUrls :
       /\ begin("extract", url)
       /\ IF ~HandlerAccepts(url)
            THEN /\ retry_skip(None)
                 /\ phase' = "responded"
                 /\ status' = BAD_REQUEST
            ELSE extract_video_info(url, INTERNAL_SERVER_ERROR)
  /\ spawns' = <<>>
  /\ elapsed' = 0
  /\ children' = 0
  /\ UNCHANGED <<cacheVars, urlVars, restVars>>

\* extract_video_info called by itself
ExtractVideoInfo ==
  /\ \E url \in ServiceUrls :
       /\ begin("call", url)
       /\ extract_video_info(url, 0)
  /\ spawns' = <<>>
  /\ elapsed' = 0
  /\ children' = 0
  /\ UNCHANGED <<cacheVars, urlVars, restVars>>

\* the TimeoutLayer of the router answers for a handler still running
LayerExpired(endpoint, ms) == endpoint = "extract" /\ ms > LAYER_TIMEOUT_MS

\* one call of extract_video_info_internal inside retry_with_backoff
ToolAttempt ==
  /\ phase = "running"
  /\ pc = "call"
  /\ \E r \in ToolResults(req.url) :
       /\ spawns' = IF ToolStarted(r) THEN Append(spawns, req.url) ELSE spawns
       /\ elapsed' = elapsed + ToolTook(r)
       /\ children' = children
            + Orphans(r, LayerExpired(req.endpoint, elapsed + ToolTook(r)))
       /\ IF LayerExpired(req.endpoint, elapsed + ToolTook(r))
            THEN /\ pc' = "dropped"
                 /\ phase' = "responded"
                 /\ status' = REQUEST_TIMEOUT
                 /\ UNCHANGED <<max_retries, attempt, delay, last_error, outcomes,
                                slept, result>>
            ELSE /\ attempt_step({r})
                 /\ phase' = IF pc' = "done" THEN "responded" ELSE "running"
                 /\ status' = IF pc' # "done" \/ req.endpoint # "extract" THEN 0
                              ELSE IF result'[1].ok THEN OK
                              ELSE INTERNAL_SERVER_ERROR
  /\ UNCHANGED <<req, prev, cacheVars, urlVars, restVars>>

\* the sleep between two tries
ToolWake ==
  /\ phase = "running"
  /\ pc = "sleep"
  /\ elapsed' = elapsed + delay
  /\ IF LayerExpired(req.endpoint, elapsed + delay)
       THEN /\ pc' = "dropped"
            /\ phase' = "responded"
            /\ status' = REQUEST_TIMEOUT
            /\ UNCHANGED <<max_retries, attempt, delay, last_error, outcomes,
                           slept, result>>
       ELSE /\ wake_step
            /\ UNCHANGED <<phase, status>>
  /\ UNCHANGED <<req, spawns, children, prev, cacheVars, urlVars, restVars>>

\* a child that was left running ends by itself while the call goes on
ChildExit ==
  /\ phase = "running"
  /\ children > 0
  /\ children' = children - 1
  /\ UNCHANGED <<req, phase, spawns, status, elapsed, prev, cacheVars, retryVars,
                 urlVars, restVars>>

\* Command::new("yt-dlp") ... video_url ... .spawn(), then the stream
spawn_download(url) ==
  \E started \in BOOLEAN :
    /\ spawns' = IF started THEN <<url>> ELSE <<>>
    /\ children' = IF started THEN 1 ELSE 0
    /\ status' \in (IF started THEN {OK, INTERNAL_SERVER_ERROR}
                               ELSE {INTERNAL_SERVER_ERROR})

\* GET /api/download of snatch-rs
DownloadHandler ==
  /\ \E url \in ServiceUrls :
       /\ begin("download", url)
       /\ IF ~validate_url(url).ok
            THEN /\ status' = BAD_REQUEST
                 /\ spawns' = <<>>
                 /\ children' = 0
            ELSE spawn_download(url)
  /\ retry_skip(None)
  /\ phase' = "responded"
  /\ elapsed' = 0
  /\ UNCHANGED <<cacheVars, urlVars, restVars>>

\* GET /api/download of downloader-api
ApiDownloadHandler ==
  /\ \E url \in ServiceUrls :
       /\ begin("api_download", url)
       /\ spawn_download(url)
  /\ retry_skip(None)
  /\ phase' = "responded"
  /\ elapsed' = 0
  /\ UNCHANGED <<cacheVars, urlVars, restVars>>

InitService ==
  /\ CacheNew(DEFAULT_CACHE_SIZE, DEFAULT_CACHE_TTL_MS)
  /\ RetryIdle
  /\ UrlIdle
  /\ SvcIdle
  /\ RestIdle

NextService ==
  \/ ExtractHandler
  \/ ExtractVideoInfo
  \/ ToolAttempt
  \/ ToolWake
  \/ ChildExit
  \/ DownloadHandler
  \/ ApiDownloadHandler

SpecService == InitService /\ [][NextService]_vars

\* -------------------------------------------------------- extract_formats
\* A serde_json::Value is modelled by what extract_formats reads of it: a
\* field is None when as_str / as_u64 / as_array yields None (the key is
\* missing or holds a value of another type).
MaxFormats == 4
MaxDownloads == 4

unwrap_or(opt, default) == IF opt = None THEN default ELSE opt[1]

Candidate(vcodec, url, height, note, ext) ==
  [vcodec |-> vcodec, url |-> url, height |-> height, format_note |-> note,
   ext |-> ext, filesize |-> None]
Candidates == {
  Candidate(Some("h264"), Some("u1080"), Some(1080), None, Some("mp4")),
  Candidate(Some("h264"), Some("u720"), Some(720), Some("HD"), Some("mp4")),
  Candidate(Some("vp9"), Some("u480"), Some(480), None, Some("webm")),
  Candidate(Some("h264"), Some("unote"), None, Some("medium"), None),
  Candidate(Some("h264"), Some("uzero"), Some(0), None, None),
  Candidate(Some("none"), Some("uaudio"), None, Some("audio"), Some("mp3")),
  Candidate(None, Some("unocodec"), Some(1440), None, Some("mp4")),
  Candidate(Some("h264"), None, Some(2160), None, Some("mp4")) }
Download(url, ext) == [url |-> url, ext |-> ext, filesize |-> None]
Downloads == {
  Download(Some("d1"), Some("mp4")),
  Download(Some("d2"), None),
  Download(None, Some("mp4")) }

SeqsUpTo(S, n) == UNION {[1..m -> S] : m \in 0..n}
Json(url, fs, ds) ==
  [url |-> url, ext |-> None, filesize |-> None, formats |-> fs,
   requested_downloads |-> ds]
\* the values of json: every candidate list, every requested_downloads list,
\* and a top-level url next to such lists
Jsons ==
  {Json(None, fs, ds) :
     fs \in {None} \cup {Some(l) : l \in SeqsUpTo(Candidates, MaxFormats)},
     ds \in {None, Some(<<Download(Some("d1"), Some("mp4"))>>)}}
  \cup
  {Json(None, fs, ds) :
     fs \in {None, Some(<<>>),
             Some(<<Candidate(Some("none"), Some("uaudio"), None, Some("audio"), Some("mp3"))>>),
             Some(<<Candidate(Some("h264"), Some("u720"), Some(720), Some("HD"), Some("mp4"))>>)},
     ds \in {None} \cup {Some(l) : l \in SeqsUpTo(Downloads, MaxDownloads)}}
  \cup
  {Json(Some("direct"), fs, ds) :
     fs \in {None} \cup {Some(l) : l \in SeqsUpTo(Candidates, 2)},
     ds \in {None, Some(<<Download(Some("d1"), Some("mp4"))>>)}}

VideoFormat(quality, url, ext, filesize) ==
  [quality |-> quality, url |-> url, ext |-> ext, filesize |-> filesize]

\* if let Some(url) = json["url"].as_str()
FastPathNoList(j) == j.url # None /\ j.formats = None
FastPath(j) == j.url # None

\* the filter closure
UsableAnyCodec(f) == f.url # None
Usable(f) == unwrap_or(f.vcodec, "none") # "none" /\ f.url # None

\* the sort key, and the stable sort_by in descending order of it
HeightKey(f) == unwrap_or(f.height, 0)
InsertByHeight(sorted, f) ==
  LET at == IF \E i \in 1..Len(sorted) : HeightKey(sorted[i]) < HeightKey(f)
              THEN CHOOSE i \in 1..Len(sorted) :
                     /\ HeightKey(sorted[i]) < HeightKey(f)
                     /\ \A j \in 1..(i - 1) : HeightKey(sorted[j]) >= HeightKey(f)
              ELSE Len(sorted) + 1
  IN SubSeq(sorted, 1, at - 1) \o <<f>> \o SubSeq(sorted, at, Len(sorted))
RECURSIVE SortByHeight(_)
SortByHeight(fs) ==
  IF fs = <<>> THEN <<>>
  ELSE InsertByHeight(SortByHeight(SubSeq(fs, 1, Len(fs) - 1)), fs[Len(fs)])

TOP_FORMATS == 3
take(fs, n) == SubSeq(fs, 1, IF Len(fs) < n THEN Len(fs) ELSE n)

quality_of(f) ==
  IF HeightKey(f) > 0 THEN ToString(HeightKey(f)) \o "p"
  ELSE unwrap_or(f.format_note, "unknown")

from_format_list(j) ==
  IF j.formats = None THEN <<>>
  ELSE LET video_formats == take(SortByHeight(SelectSeq(j.formats[1], Usable)), TOP_FORMATS)
       IN [i \in 1..Len(video_formats) |->
             VideoFormat(quality_of(video_formats[i]),
                         unwrap_or(video_formats[i].url, ""),
                         unwrap_or(video_formats[i].ext, "mp4"),
                         video_formats[i].filesize)]

\* if formats.is_empty()
FallbackAlways(fs) == TRUE
Fallback(fs) == fs = <<>>

from_requested_downloads(j) ==
  IF j.requested_downloads = None THEN <<>>
  ELSE LET ds == SelectSeq(j.requested_downloads[1], LAMBDA d : d.url # None)
       IN [i \in 1..Len(ds) |->
             VideoFormat("best", ds[i].url[1], unwrap_or(ds[i].ext, "mp4"),
                         ds[i].filesize)]

extract_formats(j) ==
  IF FastPath(j)
    THEN <<VideoFormat("best", j.url[1], unwrap_or(j.ext, "mp4"), j.filesize)>>
    ELSE LET fs == from_format_list(j)
         IN IF Fallback(fs) THEN fs \o from_requested_downloads(j) ELSE fs

ExtractFormats ==
  /\ formats = None
  /\ formats' = Some(extract_formats(json))
  /\ UNCHANGED <<json, cacheVars, retryVars, urlVars, svcVars, lockVars, callVars,
                 twinVars>>

InitFormats ==
  /\ CacheNew(DEFAULT_CACHE_SIZE, DEFAULT_CACHE_TTL_MS)
  /\ RetryIdle
  /\ UrlIdle
  /\ SvcIdle
  /\ json \in Jsons
  /\ formats = None
  /\ lock = None
  /\ tasks = [t \in Tasks |-> TaskIdle]
  /\ calls = [c \in Calls |-> CallIdle]
  /\ twin = <<>>
  /\ twin_res = None

NextFormats == ExtractFormats

SpecFormats == InitFormats /\ [][NextFormats]_vars

\* ------------------------------------------- two runs of the same calls
\* The same put/get/remove/clear calls are made on two caches created alike:
\* `data' also receives cleanup_expired calls, `twin' never does.  Both read
\* the same clock.

\* Cache::get on map d: the map left behind and the value returned
get_from(d, key) ==
  IF key \in DOMAIN d /\ NotExpired(now_fn, d[key])
    THEN [map |-> d, res |-> Some(d[key].data)]
    ELSE [map |-> MapRemove(d, key), res |-> None]

\* Cache::put on map d: the maps it may leave behind
put_into(d, key, value) ==
  {MapInsert(d1, key, [data |-> value, expires_at |-> ExpiresAt(now_fn)]) :
     d1 \in EvictLoop(d)}

TwinGet ==
  /\ \E key \in Keys :
       /\ get(key)
       /\ twin' = get_from(twin, key).map
       /\ twin_res' = Some(get_from(twin, key).res)
  /\ UNCHANGED <<retryVars, urlVars, svcVars, fmtVars, lockVars, callVars>>

\* where both runs hold the same entries, min_by_key meets them in the same
\* order and yields the same victim in both
TwinPut ==
  /\ \E key \in Keys, value \in Values :
       /\ put(key, value)
       /\ twin' \in put_into(twin, key, value)
       /\ twin = data => twin' = data'
  /\ twin_res' = None
  /\ UNCHANGED <<retryVars, urlVars, svcVars, fmtVars, lockVars, callVars>>

TwinRemove ==
  /\ \E key \in Keys : remove(key) /\ twin' = MapRemove(twin, key)
  /\ twin_res' = None
  /\ UNCHANGED <<retryVars, urlVars, svcVars, fmtVars, lockVars, callVars>>

TwinClear ==
  /\ clear
  /\ twin' = <<>>
  /\ twin_res' = None
  /\ UNCHANGED <<retryVars, urlVars, svcVars, fmtVars, lockVars, callVars>>

\* the extra call, made on `data' only
TwinCleanup ==
  /\ cleanup_expired
  /\ twin_res' = None
  /\ UNCHANGED <<twin, retryVars, urlVars, svcVars, fmtVars, lockVars, callVars>>

NextTwin == TwinGet \/ TwinPut \/ TwinRemove \/ TwinClear \/ TwinCleanup \/ ClockTick

SpecTwin == Init /\ [][NextTwin]_vars

\* --------------------------------------------- the cache behind its Mutex
\* AppState.cache is Arc<tokio::sync::Mutex<Cache>> and put/get take
\* &mut self: a task reaches the cache only through the guard that
\* lock().await hands out.  put is taken one step of its code at a time, so
\* that a second task could run between its length test and its insert if the
\* guard let it.  The history variables of the sequential runs are not kept
\* here.

\* Mutex::lock resolves for a waiting task
LockOpen(l) == TRUE
LockFree(l) == l = None

\* a task calls cache.lock().await for a put or a get and is suspended
CallLock ==
  /\ \E t \in Tasks, op \in {"put", "get"}, key \in Keys, value \in Values :
       /\ tasks[t].pc = "idle"
       /\ tasks' = [tasks EXCEPT ![t] =
                      [pc |-> "lock", op |-> op, key |-> key,
                       value |-> IF op = "put" THEN value ELSE ""]]
  /\ UNCHANGED <<lock, cacheVars, retryVars, urlVars, svcVars, fmtVars, callVars, twinVars>>

\* the task is handed the guard and enters the operation
LockAcquired ==
  /\ \E t \in Tasks :
       /\ tasks[t].pc = "lock"
       /\ LockFree(lock)
       /\ lock' = Some(t)
       /\ tasks' = [tasks EXCEPT ![t].pc = IF tasks[t].op = "put" THEN "check" ELSE "read"]
  /\ UNCHANGED <<cacheVars, retryVars, urlVars, svcVars, fmtVars, callVars, twinVars>>

\* Cache::put, one turn of `while self.data.len() >= self.max_size`
PutCheck ==
  /\ \E t \in Tasks :
       /\ tasks[t].pc = "check"
       /\ IF CacheFull(data)
            THEN data' \in evict_oldest(data) /\ UNCHANGED tasks
            ELSE data' = data /\ tasks' = [tasks EXCEPT ![t].pc = "insert"]
  /\ UNCHANGED <<lock, max_size, ttl, clock, order, puts, last,
                 retryVars, urlVars, svcVars, fmtVars, callVars, twinVars>>

\* Cache::put, the insert; the guard is dropped when the call returns
PutInsert ==
  /\ \E t \in Tasks :
       /\ tasks[t].pc = "insert"
       /\ data' = MapInsert(data, tasks[t].key,
                            [data |-> tasks[t].value, expires_at |-> ExpiresAt(now_fn)])
       /\ tasks' = [tasks EXCEPT ![t] = TaskIdle]
       /\ lock' = IF lock = Some(t) THEN None ELSE lock
  /\ UNCHANGED <<max_size, ttl, clock, order, puts, last,
                 retryVars, urlVars, svcVars, fmtVars, callVars, twinVars>>

\* Cache::get under the guard; the guard is dropped when the call returns
GetLocked ==
  /\ \E t \in Tasks :
       /\ tasks[t].pc = "read"
       /\ data' = get_from(data, tasks[t].key).map
       /\ tasks' = [tasks EXCEPT ![t] = TaskIdle]
       /\ lock' = IF lock = Some(t) THEN None ELSE lock
  /\ UNCHANGED <<max_size, ttl, clock, order, puts, last,
                 retryVars, urlVars, svcVars, fmtVars, callVars, twinVars>>

NextLock == CallLock \/ LockAcquired \/ PutCheck \/ PutInsert \/ GetLocked \/ ClockTick

SpecLock == Init /\ [][NextLock]_vars

\* ------------------------------------------ extractions running together
\* Each request runs extract_video_info in its own task; the calls of
\* retry_with_backoff share nothing: attempt and delay are locals of the call
\* (retry.rs:31-32), and no lock is taken anywhere on the way.  A call is
\* given the number of runs of yt-dlp that fail before one succeeds.
FailRuns == 0..(EXTRACT_MAX_RETRIES + 1)

\* the frame that holds the locals of call c
FrameShared(c) == "call1"
Frame(c) == c

\* what the next run of yt-dlp returns to call c
ToolReturns(c) ==
  IF calls[c].invoked >= calls[c].fails THEN Ok("info") ELSE Err(ErrToolExit)

\* a request arrives and its retry_with_backoff starts
CallStart ==
  /\ \E c \in Calls, n \in FailRuns :
       /\ calls[c].pc \in {"idle", "done"}
       /\ calls' = [[calls EXCEPT ![c] = [pc |-> "call", fails |-> n, attempt |-> 0,
                                          delay |-> 0, invoked |-> 0, slept |-> <<>>,
                                          result |-> None]]
                      EXCEPT ![Frame(c)].attempt = 0,
                             ![Frame(c)].delay = INITIAL_DELAY_MS]
  /\ UNCHANGED <<cacheVars, retryVars, urlVars, svcVars, fmtVars, lockVars, twinVars>>

\* one pass of the loop of call c, as attempt_step
CallAttempt(c) ==
  LET r == ToolReturns(c)
      f == Frame(c)
  IN /\ calls[c].pc = "call"
     /\ IF r.ok
          THEN calls' = [calls EXCEPT ![c].invoked = @ + 1,
                                      ![c].result = Some(r),
                                      ![c].pc = "done"]
          ELSE IF MayRetry(calls[f].attempt, EXTRACT_MAX_RETRIES)
            THEN calls' = [[calls EXCEPT ![c].invoked = @ + 1,
                                         ![c].slept = Append(@, calls[f].delay),
                                         ![c].pc = "sleep"]
                             EXCEPT ![f].attempt = @ + 1]
            ELSE calls' = [calls EXCEPT ![c].invoked = @ + 1,
                                        ![c].result = Some(Err(FinalError(r.err, None))),
                                        ![c].pc = "done"]
     /\ UNCHANGED <<cacheVars, retryVars, urlVars, svcVars, fmtVars, lockVars, twinVars>>

\* sleep(delay) of call c is over, as wake_step
CallWake(c) ==
  /\ calls[c].pc = "sleep"
  /\ calls' = [[calls EXCEPT ![c].pc = "call"]
                 EXCEPT ![Frame(c)].delay = NextDelay(@)]
  /\ UNCHANGED <<cacheVars, retryVars, urlVars, svcVars, fmtVars, lockVars, twinVars>>

CallAttempts == \E c \in Calls : CallAttempt(c)
CallWakes == \E c \in Calls : CallWake(c)

InitCalls ==
  /\ CacheNew(DEFAULT_CACHE_SIZE, DEFAULT_CACHE_TTL_MS)
  /\ RetryIdle
  /\ UrlIdle
  /\ SvcIdle
  /\ RestIdle

NextCalls == CallStart \/ CallAttempts \/ CallWakes

\* the runtime polls every task that is ready, every timer fires, and every
\* run of yt-dlp is over after 30 s at most: a call that can take a step
\* takes it.  Nothing makes a request arrive.
SpecCalls ==
  /\ InitCalls
  /\ [][NextCalls]_vars
  /\ \A c \in Calls : WF_vars(CallAttempt(c)) /\ WF_vars(CallWake(c))

\* ------------------------------------------------- put, any capacity
\* Cache::new takes any usize for max_size, 0 included.  The thread that is
\* inside put runs on, the Mutex hands the guard to a waiting task, and
\* nothing makes a task call the cache.
InitAnySize ==
  /\ \E ms \in 0..MaxSize, t \in Ttls : CacheNew(ms, t)
  /\ RetryIdle
  /\ UrlIdle
  /\ SvcIdle
  /\ RestIdle

SpecPut ==
  /\ InitAnySize
  /\ [][NextLock]_vars
  /\ WF_vars(LockAcquired) /\ WF_vars(PutCheck) /\ WF_vars(PutInsert) /\ WF_vars(GetLocked)

\* ------------------------------------------------------------ properties
\* the keys a put took out of the map
Evicted == (DOMAIN last.pre) \ (DOMAIN data)
\* the latest step was a put of a key not stored, on a full cache
PutNewOnFull ==
  /\ last.op = "put"
  /\ last.key \notin DOMAIN last.pre
  /\ len(last.pre) >= max_size

\* C1: after every put, get, remove, clear and cleanup_expired, whatever the
\* keys and the clock values, the cache holds at most max_size entries.
C1_CapacityNeverExceeded == len(data) <= max_size

C1_Witness ==
  /\ PutNewOnFull
  /\ max_size = MaxSize
  /\ len(data) = max_size

\* C2: get(key) returns the stored value exactly when an entry for key exists
\* and the current time is strictly before its expires_at; otherwise it
\* returns nothing, and an entry that existed but was expired is deleted,
\* and no other entry is.
C2_GetReturnsIffFresh ==
  last.op = "get" =>
    LET k == last.key
        pre == last.pre
        fresh == k \in DOMAIN pre /\ clock < pre[k].expires_at * MS_PER_SEC
    IN /\ fresh => last.res = Some(pre[k].data)
       /\ ~fresh => last.res = None
       /\ (k \in DOMAIN pre /\ ~fresh) => data = MapRemove(pre, k)

C2_Witness ==
  /\ last.op = "get"
  /\ last.key \in DOMAIN last.pre
  /\ last.res = None
  /\ len(last.pre) = 2
  /\ data = MapRemove(last.pre, last.key)

\* C3: neither get nor remove ever hands back the value of an entry whose
\* expires_at has been reached (now >= expires_at).
C3_NoExpiredValueReturned ==
  (last.op \in {"get", "remove"} /\ last.res # None) =>
    /\ last.key \in DOMAIN last.pre
    /\ now_fn < last.pre[last.key].expires_at

\* C4: after put(k, v) at time t, every get(k) at a time strictly before
\* t + ttl, with no remove, clear, overwrite or eviction of k in between,
\* returns v.
C4_GetBeforeTtlReturnsValue ==
  (/\ last.op = "get"
   /\ puts[last.key] # None
   /\ clock < puts[last.key][1].at + ttl)
  => last.res = Some(puts[last.key][1].value)

\* C5: after put(k, v) at time t, a get(k) at a time strictly after t + ttl,
\* with the clock never set back and k not put again, returns nothing, and
\* after it no entry for k is stored.
C5_GetAfterTtlReturnsNothing ==
  last.op = "get" =>
    LET k == last.key IN
    (\/ k \notin DOMAIN last.pre
     \/ puts[k] # None /\ clock > puts[k][1].at + ttl)
    => (last.res = None /\ k \notin DOMAIN data)

C5_Witness ==
  /\ last.op = "get"
  /\ last.key \in DOMAIN last.pre
  /\ puts[last.key] # None
  /\ clock > puts[last.key][1].at + ttl
  /\ ttl >= MS_PER_SEC
  /\ last.res = None
  /\ last.key \notin DOMAIN data

\* C6: a put of a key not stored that finds the cache full evicts exactly one
\* entry, one with the smallest expires_at of those stored, and leaves the
\* cache with max_size entries, the new key among them.
C6_PutOnFullEvictsSoonestExpiry ==
  PutNewOnFull =>
    /\ Cardinality(Evicted) = 1
    /\ \A g \in Evicted : \A j \in DOMAIN last.pre :
         last.pre[g].expires_at <= last.pre[j].expires_at
    /\ len(data) = max_size
    /\ last.key \in DOMAIN data
    /\ data[last.key].data = last.value

C6_Witness ==
  /\ PutNewOnFull
  /\ len(last.pre) = 2
  /\ \E a, b \in DOMAIN last.pre : last.pre[a].expires_at < last.pre[b].expires_at
  /\ Cardinality(Evicted) = 1
  /\ last.key \in DOMAIN data

\* C7: a put of a key not stored that finds the cache full evicts the least
\* recently inserted of the stored keys.
C7_PutOnFullEvictsOldestInsert ==
  PutNewOnFull => Evicted = {Head(last.pre_order)}

\* C8: an attempt that fails with an error is_retryable_error classifies as
\* non-retryable is the last one: the call returns that error at once, so a
\* non-retryable first error means exactly one invocation.
C8_NonRetryableStops ==
  \A i \in 1..Len(outcomes) :
    (~outcomes[i].ok /\ ~is_retryable_error(outcomes[i].err)) =>
      /\ Len(outcomes) = i
      /\ pc = "done"
      /\ result = Some(outcomes[i])

\* C9: the operation is invoked at most max_retries + 1 times; a success is
\* the last invocation and is what the call returns; a call that returns an
\* error has invoked the operation exactly max_retries + 1 times, each a
\* failure; nothing is invoked once the call has returned.
C9_AttemptsBounded ==
  /\ Len(outcomes) <= max_retries + 1
  /\ \A i \in 1..Len(outcomes) :
       outcomes[i].ok => (Len(outcomes) = i /\ pc = "done" /\ result = Some(outcomes[i]))
  /\ pc = "done" =>
       /\ result # None
       /\ Len(outcomes) >= 1
       /\ ~outcomes[Len(outcomes)].ok =>
            (~result[1].ok /\ Len(outcomes) = max_retries + 1)
  /\ pc # "done" => result = None

C9_Witness ==
  /\ pc = "done"
  /\ max_retries = 3
  /\ Len(outcomes) = 3
  /\ ~outcomes[1].ok /\ ~outcomes[2].ok /\ outcomes[3].ok
  /\ result = Some(outcomes[3])

\* C10: when every attempt of the budget has failed, the error returned is
\* the one of the last attempt.
C10_LastErrorReturned ==
  (pc = "done" /\ ~outcomes[Len(outcomes)].ok) =>
    result = Some(Err(outcomes[Len(outcomes)].err))

C10_Witness ==
  /\ pc = "done"
  /\ Len(outcomes) = 3
  /\ ~outcomes[3].ok
  /\ Cardinality({outcomes[i].err : i \in 1..3}) = 3
  /\ result = Some(Err(outcomes[3].err))

\* C11: the suspension before the n-th retry lasts min(500 ms * 2^(n-1), 30 s);
\* every failed attempt but the final one is followed by one suspension, and
\* no suspension follows a success or the final failure.
C11_BackoffDelays ==
  /\ \A n \in 1..Len(slept) :
       slept[n] = (IF 500 * 2^(n - 1) < 30000 THEN 500 * 2^(n - 1) ELSE 30000)
  /\ \A n \in 1..(Len(slept) - 1) : slept[n] <= slept[n + 1]
  /\ pc = "done" => Len(slept) = Len(outcomes) - 1
  /\ pc \in {"call", "sleep"} => Len(slept) = Len(outcomes)

C11_Witness ==
  /\ pc = "done"
  /\ Len(slept) = 7
  /\ slept[1] = 500
  /\ slept[6] = 16000
  /\ slept[7] = 30000
  /\ ~outcomes[8].ok

\* the reason of the specification's ValidationVerdict a verdict stands for;
\* no message of validate_url stands for EmptyInput
Reason(v) ==
  IF v.ok THEN "Accepted"
  ELSE IF v.err = MSG_DANGEROUS THEN "DangerousCharacter"
  ELSE IF v.err = MSG_FORMAT THEN "MalformedUrl"
  ELSE IF v.err = MSG_PROTOCOL THEN "DisallowedScheme"
  ELSE IF v.err \in {MSG_NO_HOST, MSG_PLATFORM} THEN "DisallowedHost"
  ELSE "EmptyInput"
HasDangerous(url) == \E i \in 1..Len(url) : url[i] \in DANGEROUS_CHARS
Validated == verdict # None
SchemeOf(url) == Url_parse(url).scheme
HostOf(url) == IF Url_parse(url).host = None THEN <<>> ELSE Url_parse(url).host[1]
AllowListed(host) ==
  \E d \in {<<"i", "n", "s", "t", "a", "g", "r", "a", "m", ".", "c", "o", "m">>, <<"t", "i", "k", "t", "o", "k", ".", "c", "o", "m">>,
            <<"t", "w", "i", "t", "t", "e", "r", ".", "c", "o", "m">>, <<"x", ".", "c", "o", "m">>} :
    \/ to_lowercase(host) = d
    \/ ends_with(to_lowercase(host), <<".">> \o d)

\* C12: every URL that contains a dangerous character is rejected with the
\* dangerous-character reason naming the first such character of the string,
\* whatever the rest of the string is (parsable or not, any scheme, any host).
C12_DangerousCharFirst ==
  Validated /\ HasDangerous(vurl) =>
    /\ Reason(verdict[1]) = "DangerousCharacter"
    /\ \E i \in 1..Len(vurl) :
         /\ vurl[i] \in DANGEROUS_CHARS
         /\ \A j \in 1..(i - 1) : vurl[j] \notin DANGEROUS_CHARS
         /\ verdict[1].ch = vurl[i]
\* a string the parser refuses, with | before ; : the verdict names |
C12_Witness ==
  /\ Validated
  /\ vurl = <<"f", "t", "p", ":", "/", "/", "x", ".", "c", "o", "m", ":", "8", "o", "/", "a", "|", "b", ";", "c">>
  /\ ~Url_parse(vurl).ok
  /\ Reason(verdict[1]) = "DangerousCharacter"
  /\ verdict[1].ch = "|"

\* C13 as stated: every URL whose scheme is neither http nor https is rejected
\* with DisallowedScheme.
C13_AnyOtherSchemeIsDisallowedScheme ==
  Validated /\ Url_parse(vurl).ok /\ SchemeOf(vurl) \notin {HTTP, HTTPS} =>
    Reason(verdict[1]) = "DisallowedScheme"
\* C13 amended: every URL without a dangerous character that parses as an
\* absolute URL whose scheme is neither http nor https is rejected with
\* DisallowedScheme, whatever its host.
C13_OtherSchemeRejected ==
  Validated /\ ~HasDangerous(vurl) /\ Url_parse(vurl).ok
    /\ SchemeOf(vurl) \notin {HTTP, HTTPS} =>
      Reason(verdict[1]) = "DisallowedScheme"
C13_Witness ==
  /\ Validated
  /\ vurl = <<"f", "t", "p", ":", "/", "/", "i", "n", "s", "t", "a", "g", "r", "a", "m", ".", "c", "o", "m", "/", "p", "/", "1">>
  /\ AllowListed(HostOf(vurl))
  /\ Reason(verdict[1]) = "DisallowedScheme"

\* C14 as stated: every URL whose host is not allow-listed is rejected with
\* DisallowedHost.
C14_AnyOtherHostIsDisallowedHost ==
  Validated /\ Url_parse(vurl).ok /\ ~AllowListed(HostOf(vurl)) =>
    Reason(verdict[1]) = "DisallowedHost"
\* C14 amended: a URL without a dangerous character that parses as an absolute
\* http or https URL is accepted when its host, compared case-insensitively,
\* equals an allow-list domain or ends with a dot followed by one, and is
\* rejected with DisallowedHost otherwise.
C14_HostAllowList ==
  Validated /\ ~HasDangerous(vurl) /\ Url_parse(vurl).ok
    /\ SchemeOf(vurl) \in {HTTP, HTTPS} =>
      Reason(verdict[1]) =
        (IF AllowListed(HostOf(vurl)) THEN "Accepted" ELSE "DisallowedHost")
C14_Witness ==
  /\ Validated
  /\ vurl = <<"h", "t", "t", "p", "s", ":", "/", "/", "n", "o", "t", "i", "n", "s", "t", "a", "g", "r", "a", "m", ".", "c", "o", "m", "/", "p", "/", "1">>
  /\ Reason(verdict[1]) = "DisallowedHost"

\* C15: a URL that is empty, or empty after trimming, is rejected with reason
\* EmptyInput and not with the reason of a later rule.
C15_EmptyIsEmptyInput ==
  Validated /\ trim(vurl) = <<>> => Reason(verdict[1]) = "EmptyInput"

\* C16: extract_platform yields one of instagram, tiktok, twitter, unknown for
\* every string, and never unknown for a URL that validate_url accepts.
C16_PlatformTotal ==
  platform # None =>
    /\ platform[1] \in {"instagram", "tiktok", "twitter", "unknown"}
    /\ (Validated /\ verdict[1].ok => platform[1] # "unknown")
C16_Witness ==
  /\ Validated
  /\ verdict[1].ok
  /\ vurl = <<"h", "t", "t", "p", "s", ":", "/", "/", "w", "w", "w", ".", "i", "n", "s", "t", "a", "g", "r", "a", "m", ".", "c", "o", "m", "/", "p", "/", "1">>
  /\ platform = Some("instagram")

\* extract_video_info was called by itself and has returned, or is running
DirectCall == req.endpoint = "call"
ExtractAnswered == phase = "responded" /\ req.endpoint = "extract"
Succeeded ==
  /\ phase = "responded"
  /\ req.endpoint \in {"extract", "call"}
  /\ result # None
  /\ result[1].ok
CacheUntouched == data = <<>> /\ order = <<>> /\ last = NoOp

\* C17: for a URL that validate_url rejects, extract_video_info returns the
\* validation error at once: yt-dlp is never spawned, retry_with_backoff is
\* not entered (no invocation, no sleep) and the cache is neither read nor
\* written.
C17_RejectedShortCircuits ==
  DirectCall /\ ~validate_url(req.url).ok =>
    /\ phase = "responded"
    /\ result = Some(Err(validate_url(req.url).err))
    /\ spawns = <<>>
    /\ pc = "idle" /\ outcomes = <<>> /\ slept = <<>>
    /\ CacheUntouched
C17_Witness ==
  /\ DirectCall
  /\ req.url = <<"-", "-", "e", "x", "e", "c">>
  /\ phase = "responded"
  /\ result = Some(Err(MSG_FORMAT))
  /\ spawns = <<>>

\* C18: when an extraction of a URL succeeds right after a successful
\* extraction of the same URL (the clock has not moved, so within the TTL),
\* yt-dlp is not spawned for the second one; and every successful extraction
\* leaves its result in the cache.
C18_SecondCallIsCacheHit ==
  /\ Succeeded /\ prev.ok /\ prev.url = req.url => spawns = <<>>
  /\ Succeeded => data # <<>>

\* C19: on every request path of both servers, yt-dlp is spawned only with a
\* URL that validate_url accepts.
C19_SpawnOnlyValidated ==
  \A i \in 1..Len(spawns) : validate_url(spawns[i]).ok

C27_TimeoutKillsChild ==
  /\ req.endpoint \in {"extract", "call"}
  /\ phase = "running"
  /\ pc \in {"call", "sleep"}
  => children = 0

\* C28: for an accepted URL every kind of tool failure is retried; when
\* extract_video_info returns an error, extract_video_info_internal was
\* invoked exactly 4 times (3 retries), every invocation failed, yt-dlp was
\* started by each invocation that did not fail to start it, and the error
\* returned is that of the 4th invocation.
C28_AllFailuresRetried ==
  DirectCall /\ validate_url(req.url).ok =>
    /\ phase = "running" =>
         /\ Len(outcomes) <= EXTRACT_MAX_RETRIES
         /\ \A i \in 1..Len(outcomes) : ~outcomes[i].ok
    /\ phase = "responded" /\ ~result[1].ok =>
         /\ Len(outcomes) = EXTRACT_MAX_RETRIES + 1
         /\ \A i \in 1..Len(outcomes) : ~outcomes[i].ok
         /\ result[1] = outcomes[EXTRACT_MAX_RETRIES + 1]
         /\ Len(spawns) = Len(SelectSeq(outcomes, ToolStarted))
         /\ Len(slept) = EXTRACT_MAX_RETRIES
C28_Witness ==
  /\ DirectCall
  /\ phase = "responded"
  /\ Len(outcomes) = 4
  /\ outcomes[1].err = ErrToolTimeout
  /\ outcomes[2].err = ErrToolSpawn
  /\ outcomes[3].err = ErrToolExit
  /\ outcomes[4].err = ErrToolParse
  /\ result = Some(Err(ErrToolParse))
  /\ Len(spawns) = 3

\* the Vec returned, and what the claims say of a candidate
Extracted == formats # None
RankOf(f) == IF f.height = None THEN 0 ELSE f.height[1]
StatedEligible(f) == f.vcodec # Some("none") /\ f.url # None
StatedLabel(f) ==
  IF f.height # None THEN ToString(f.height[1]) \o "p"
  ELSE IF f.format_note # None THEN f.format_note[1] ELSE "unknown"
CodedEligible(f) == f.vcodec # None /\ f.vcodec # Some("none") /\ f.url # None
CodedLabel(f) ==
  IF f.height # None /\ f.height[1] > 0 THEN ToString(f.height[1]) \o "p"
  ELSE IF f.format_note # None THEN f.format_note[1] ELSE "unknown"
\* out is the (at most 3) eligible entries of list of greatest height, in
\* non-increasing order of height, labelled by Label
TopThree(list, out, Eligible(_), Label(_)) ==
  LET idx == {i \in 1..Len(list) : Eligible(list[i])}
      n == IF Cardinality(idx) < 3 THEN Cardinality(idx) ELSE 3
  IN /\ Len(out) = n
     /\ \E picks \in [1..n -> idx] :
          /\ \A a, b \in 1..n : a # b => picks[a] # picks[b]
          /\ \A a \in 1..n :
               /\ out[a].quality = Label(list[picks[a]])
               /\ Some(out[a].url) = list[picks[a]].url
          /\ \A a \in 1..(n - 1) :
               RankOf(list[picks[a]]) >= RankOf(list[picks[a + 1]])
          /\ \A i \in idx \ {picks[a] : a \in 1..n} :
               \A a \in 1..n : RankOf(list[i]) <= RankOf(list[picks[a]])
NoneUsable(j) ==
  j.formats = None \/ \A i \in 1..Len(j.formats[1]) : ~CodedEligible(j.formats[1][i])
DownloadUrls(j) ==
  IF j.requested_downloads = None THEN {}
  ELSE {j.requested_downloads[1][i].url : i \in 1..Len(j.requested_downloads[1])}

\* C21: when the tool output has a top-level url, the result is exactly one
\* format labelled "best" that carries this url, whatever formats list or
\* requested_downloads list is present too.
C21_DirectUrlFastPath ==
  Extracted /\ json.url # None =>
    /\ Len(formats[1]) = 1
    /\ formats[1][1].quality = "best"
    /\ Some(formats[1][1].url) = json.url
C21_Witness ==
  /\ Extracted
  /\ json.url = Some("direct")
  /\ json.formats # None /\ Len(json.formats[1]) = 2
  /\ json.requested_downloads # None
  /\ Len(formats[1]) = 1
  /\ formats[1][1].url = "direct"

\* C22 as stated: without a top-level url, when some candidate has a vcodec
\* that is not "none" and a url, the formats are the at most 3 such candidates
\* of greatest height, in non-increasing order of height, labelled
\* "{height}p" when the height is known.
C22_TopThreeOfNotNone ==
  /\ Extracted /\ json.url = None /\ json.formats # None
  /\ \E i \in 1..Len(json.formats[1]) : StatedEligible(json.formats[1][i])
  => TopThree(json.formats[1], formats[1], StatedEligible, StatedLabel)
\* C22 amended: without a top-level url, when some candidate has a vcodec
\* other than "none" and a url, the formats are the at most 3 such candidates
\* of greatest height, in non-increasing order of height (a missing or zero
\* height last), labelled "{height}p" when the height is known and positive
\* and with format_note or "unknown" otherwise; a candidate without vcodec,
\* with vcodec "none" or without url never appears.
C22_TopThreeByHeight ==
  /\ Extracted /\ json.url = None /\ json.formats # None
  /\ \E i \in 1..Len(json.formats[1]) : CodedEligible(json.formats[1][i])
  => TopThree(json.formats[1], formats[1], CodedEligible, CodedLabel)
\* four usable candidates, the least one first: it comes out third, and the
\* one without height is dropped
C22_Witness ==
  /\ Extracted /\ json.url = None /\ json.formats # None
  /\ Len(json.formats[1]) = 4
  /\ json.formats[1][1].height = Some(480)
  /\ \E i \in 1..4 : json.formats[1][i].url = Some("unote")
  /\ Len(formats[1]) = 3
  /\ formats[1][1].quality = "1080p"
  /\ formats[1][2].quality = "720p"
  /\ formats[1][3].quality = "480p"

\* C23 as stated: the requested_downloads list is used only when there is no
\* top-level url and the candidate list gave no format, and then yields one
\* "best" entry per item of the list, in order (none when it is absent).
C23_FallbackPerItem ==
  Extracted /\ json.url = None =>
    IF NoneUsable(json)
      THEN LET ds == unwrap_or(json.requested_downloads, <<>>)
           IN /\ Len(formats[1]) = Len(ds)
              /\ \A i \in 1..Len(ds) :
                   /\ formats[1][i].quality = "best"
                   /\ Some(formats[1][i].url) = ds[i].url
      ELSE \A i \in 1..Len(formats[1]) : Some(formats[1][i].url) \notin DownloadUrls(json)
\* C23 amended: ... and then yields one "best" entry per item of the list
\* that carries a url, in list order; the result is empty when the list is
\* absent, empty or has no item with a url.
C23_FallbackPerItemWithUrl ==
  Extracted /\ json.url = None =>
    IF NoneUsable(json)
      THEN LET ds == SelectSeq(unwrap_or(json.requested_downloads, <<>>),
                               LAMBDA d : d.url # None)
           IN /\ Len(formats[1]) = Len(ds)
              /\ \A i \in 1..Len(ds) :
                   /\ formats[1][i].quality = "best"
                   /\ Some(formats[1][i].url) = ds[i].url
      ELSE \A i \in 1..Len(formats[1]) : Some(formats[1][i].url) \notin DownloadUrls(json)
C23_Witness ==
  /\ Extracted /\ json.url = None
  /\ json.formats # None /\ Len(json.formats[1]) = 1 /\ NoneUsable(json)
  /\ json.requested_downloads # None
  /\ Len(json.requested_downloads[1]) = 3
  /\ json.requested_downloads[1][2].url = None
  /\ Len(formats[1]) = 2
  /\ formats[1][1].url = "d2" /\ formats[1][2].url = "d1"

\* C24: the formats of a result are at most 3, on every branch.
C24_AtMostThreeFormats == Extracted => Len(formats[1]) <= 3

\* C29: get has no effect but the deletion of the queried key when its entry
\* has expired: a hit leaves every entry, the expires_at of the one read
\* included, as it was (so the choice of the next eviction is the same), and a
\* miss on an absent key changes nothing.
C29_GetOnlyDropsExpiredKey ==
  last.op = "get" =>
    LET pre == last.pre
        key == last.key
    IN /\ data = IF key \in DOMAIN pre /\ ~(now_fn < pre[key].expires_at)
                   THEN MapRemove(pre, key) ELSE pre
       /\ last.res # None =>
            /\ key \in DOMAIN pre /\ data = pre
            /\ data[key].expires_at = pre[key].expires_at
            /\ MinExpiryKeys(data) = MinExpiryKeys(pre)
       /\ key \notin DOMAIN pre => data = pre /\ last.res = None
\* a hit in a full cache of two entries, after the clock has moved
C29_Witness ==
  /\ last.op = "get" /\ last.res # None
  /\ len(data) = 2 /\ max_size = 2
  /\ clock > 0
  /\ data = last.pre

OwnBudget(c) ==
  LET k == calls[c] IN
  /\ k.pc \in {"call", "sleep"} => k.invoked = k.attempt /\ Len(k.slept) = k.attempt
  /\ \A n \in 1..Len(k.slept) : k.slept[n] = INITIAL_DELAY_MS * 2 ^ (n - 1)
  /\ k.pc = "call" => k.delay = INITIAL_DELAY_MS * 2 ^ k.attempt
  /\ k.pc = "done" =>
       IF k.fails <= EXTRACT_MAX_RETRIES
         THEN k.result = Some(Ok("info")) /\ k.invoked = k.fails + 1
         ELSE k.result = Some(Err(ErrToolExit)) /\ k.invoked = EXTRACT_MAX_RETRIES + 1
  /\ k.pc \in {"call", "sleep"} => lock = None

\* C26: extraction calls that run together are independent: each has its own
\* attempt counter and delay, so its spawns, its suspensions and its result
\* follow from its own tool alone; a suspended call holds no lock; and under
\* fair scheduling every call ends, with the tool's answer when one of its
\* first 4 runs succeeds, whatever the other call does.
C26_CallsAreIndependent ==
  /\ [](\A c \in Calls : OwnBudget(c))
  /\ \A c \in Calls :
       (calls[c].pc = "call" /\ calls[c].invoked = 0 /\ calls[c].fails <= EXTRACT_MAX_RETRIES)
         ~> (calls[c].pc = "done" /\ calls[c].result = Some(Ok("info")))
  /\ \A c \in Calls : (calls[c].pc \in {"call", "sleep"}) ~> (calls[c].pc = "done")
\* call1 has ended with the tool's answer on its second run while call2,
\* whose tool always fails, is suspended before its third run
C26_Witness ==
  /\ calls["call1"].pc = "done"
  /\ calls["call1"].result = Some(Ok("info"))
  /\ calls["call1"].invoked = 2
  /\ calls["call2"].pc = "sleep"
  /\ calls["call2"].fails = EXTRACT_MAX_RETRIES + 1
  /\ calls["call2"].attempt = 2

\* C31: put always terminates, for every capacity Cache::new accepts
\* (max_size = 0 included) and every cache content: a task that has entered
\* the eviction loop of put leaves put.
C31_PutTerminates ==
  \A t \in Tasks : (tasks[t].pc = "check") ~> (tasks[t].pc = "idle")

\* C32: put(k, v) with a key k that is already stored only replaces the
\* entry of k: the same keys are stored afterwards, and the entry of every
\* other key is as it was, also when the cache was full.
C32_PutOfStoredKeyOnlyReplaces ==
  last.op = "put" /\ last.key \in DOMAIN last.pre =>
    /\ DOMAIN data = DOMAIN last.pre
    /\ \A k \in DOMAIN data \ {last.key} : data[k] = last.pre[k]

\* C33: for a URL that validate_url accepts, extract_platform returns the
\* platform of the allow-list domain that the host equals or is a subdomain
\* of.
C33_PlatformOfAllowedDomain ==
  Validated /\ verdict[1].ok /\ platform # None =>
    LET host_lower == to_lowercase(HostOf(vurl))
        names == <<"instagram", "tiktok", "twitter", "twitter">>
    IN \A n \in 1..Len(ALLOWED_PLATFORMS) :
         (\/ host_lower = ALLOWED_PLATFORMS[n]
          \/ ends_with(host_lower, <<".">> \o ALLOWED_PLATFORMS[n]))
           => platform[1] = names[n]

====
